---- MODULE Spec2Model ----
(***************************************************************************)
(* Model of src/main-uno/main-uno.ino (OpenUno, variant B of the door      *)
(* controller): setup(), loop(), the serial receive buffer that feeds      *)
(* loop(), and the float arithmetic of the distance conversion.            *)
(*                                                                         *)
(* One Loop step is one whole execution of loop().  The I/O calls a        *)
(* function makes are recorded, in program order, in the variable log,     *)
(* which holds the calls of the most recently executed function.           *)
(***************************************************************************)
EXTENDS Integers, Sequences, FiniteSets, TLC

(***************************************************************************)
(* Bounds of the model.                                                    *)
(***************************************************************************)
\* largest number of bytes waiting in the serial receive buffer
MaxPending == 2
\* the echo durations offered by the sensor include GridStep * k for k in 0..MaxCm
MaxCm == 104

(***************************************************************************)
(* Program constants.                                                      *)
(***************************************************************************)
buzzer == 8
servoPin == 6
echoPin == 10
trigPin == 9

SERVO_LOCKED_POS == 0
SERVO_HALFLOCKED_POS == 90
SERVO_UNLOCKED_POS == 180
SERVO_IDLE_AWAY_POS == 180

NEAR_DISTANCE == 30
MID_DISTANCE == 60
FAR_DISTANCE == 100

NEAR_FREQ == 1000
MID_FREQ == 500
FAR_FREQ == 200

\* tone(buzzer, f, 100): length of a tone in ms
TONE_MS == 100
\* delay(100)
LOOP_DELAY_MS == 100

\* character codes of the bytes on the serial line
CharA == 65
CharD == 68
CharU == 85
Char_a == 97
Char_d == 100

\* the bytes the host (or line noise) may send
Bytes == {CharA, CharD, CharU, Char_a, Char_d}

\* value of servo before any write(), and of a tick that consumed no byte
None == -1
\* value of buzzer while no tone is requested
Silent == 0

(***************************************************************************)
(* distance = duration * 0.034 / 2 in binary32 arithmetic (double is       *)
(* binary32 on the Uno), then truncated to int.                            *)
(***************************************************************************)
\* the literal 0.034 rounded to binary32 is Mant034 / 2^Exp034
Mant034 == 4563403
Exp034 == 27
\* bits of a binary32 significand
SigBits == 24
\* limb size of the multi-word product
LimbBits == 15

Pow2(n) == 2 ^ n

RECURSIVE BitLen(_)
BitLen(n) == IF n = 0 THEN 0 ELSE 1 + BitLen(n \div 2)

\* duration * 0.034 / 2, rounded to nearest-even after the multiplication,
\* truncated toward zero by the conversion to int
ToDistance(dur) ==
    LET B    == Pow2(LimbBits)
        da   == dur \div B
        db   == dur % B
        ma   == Mant034 \div B
        mb   == Mant034 % B
        t0   == db * mb
        t1   == da * mb + db * ma + (t0 \div B)
        n2   == da * ma + (t1 \div B)
        low  == (t1 % B) * B + (t0 % B)
        \* dur * Mant034 = n2 * 2^30 + low
        bits == IF n2 > 0 THEN 2 * LimbBits + BitLen(n2) ELSE BitLen(low)
        sh   == IF bits > SigBits THEN bits - SigBits ELSE 0
        q    == n2 * Pow2(2 * LimbBits - sh) + (low \div Pow2(sh))
        r    == low % Pow2(sh)
        up   == (2 * r > Pow2(sh)) \/ (2 * r = Pow2(sh) /\ q % 2 = 1)
        sig  == IF up THEN q + 1 ELSE q
        \* the product is sig * 2^sh / 2^Exp034; halving it is exact
    IN  sig \div Pow2(Exp034 + 1 - sh)

(***************************************************************************)
(* Echo durations (microseconds) that pulseIn may return.  Durations has   *)
(* 0 (no echo), the last duration of each band and the first of the next,  *)
(* and one far beyond every threshold.  SweepDurations has one duration    *)
(* per centimetre and the durations around a rounding step of the product. *)
(***************************************************************************)
Durations == {0, 1, 1823, 1824, 3588, 3589, 5941, 5942, 20000}
GridStep == 59
SweepDurations ==
    {GridStep * k : k \in 0..MaxCm} \cup Durations \cup {554646, 554647, 999999}

\* the conversion, tabulated over the durations the sensor may report
DistanceOf == [p \in SweepDurations |-> ToDistance(p)]

(***************************************************************************)
(* State.                                                                  *)
(***************************************************************************)
VARIABLES
    pc,            \* "boot" before setup(), "ready" after it, "running" after a loop()
    systemActive,  \* boolean systemActive
    duration,      \* long duration
    distance,      \* int distance
    servo,         \* angle last written to myServo, None before the first write
    buzzerFreq,    \* frequency of the tone last requested, Silent if none or noTone
    rx,            \* bytes received on the serial line and not yet read
    log,           \* I/O calls of the last executed setup() or loop(), in order
    lastCmd        \* history: the last 'D' or 'A' read since boot, None if none

vars == <<pc, systemActive, duration, distance, servo, buzzerFreq, rx, log, lastCmd>>

\* the program state as one record, as loop() reads and writes it
State ==
    [systemActive |-> systemActive, duration |-> duration, distance |-> distance,
     servo |-> servo, buzzerFreq |-> buzzerFreq, rx |-> rx, log |-> <<>>]

Emit(s, events) == [s EXCEPT !.log = @ \o events]

(***************************************************************************)
(* loop(), lines 42-98.                                                    *)
(***************************************************************************)
\* a deactivate branch that writes the locked angle
DeactivateLocks(s) ==
    Emit([s EXCEPT !.systemActive = FALSE,
                   !.servo = SERVO_LOCKED_POS,
                   !.buzzerFreq = Silent],
         << <<"servo", SERVO_LOCKED_POS>>, <<"noTone", buzzer>>, <<"println", 50>> >>)

\* a deactivate branch that leaves the servo where it is
DeactivateKeepsServo(s) ==
    Emit([s EXCEPT !.systemActive = FALSE, !.buzzerFreq = Silent],
         << <<"noTone", buzzer>>, <<"println", 50>> >>)

\* a deactivate branch that forgets noTone
DeactivateKeepsTone(s) ==
    Emit([s EXCEPT !.systemActive = FALSE, !.servo = SERVO_UNLOCKED_POS],
         << <<"servo", SERVO_UNLOCKED_POS>>, <<"println", 50>> >>)

\* command == 'D'
Deactivate(s) ==
    Emit([s EXCEPT !.systemActive = FALSE,
                   !.servo = SERVO_UNLOCKED_POS,
                   !.buzzerFreq = Silent],
         << <<"servo", SERVO_UNLOCKED_POS>>, <<"noTone", buzzer>>, <<"println", 50>> >>)

\* an activate branch that toggles the state
ActivateToggles(s) ==
    Emit([s EXCEPT !.systemActive = ~s.systemActive], << <<"println", 54>> >>)

\* command == 'A'
Activate(s) ==
    Emit([s EXCEPT !.systemActive = TRUE], << <<"println", 54>> >>)

\* a read that leaves the byte in the buffer (Serial.peek)
ReadCommandPeek(s) ==
    IF Len(s.rx) > 0
    THEN LET command == Head(s.rx)
             s1 == Emit(s, << <<"read", command>> >>)
         IN  IF command = CharD THEN Deactivate(s1)
             ELSE IF command = CharA THEN Activate(s1)
             ELSE s1
    ELSE s

\* a comparison that does not tell upper from lower case
ReadCommandAnyCase(s) ==
    IF Len(s.rx) > 0
    THEN LET command == Head(s.rx)
             s1 == Emit([s EXCEPT !.rx = Tail(@)], << <<"read", command>> >>)
         IN  IF command \in {CharD, Char_d} THEN Deactivate(s1)
             ELSE IF command \in {CharA, Char_a} THEN Activate(s1)
             ELSE s1
    ELSE s

\* if (Serial.available() > 0) { char command = Serial.read(); ... }
ReadCommand(s) ==
    IF Len(s.rx) > 0
    THEN LET command == Head(s.rx)
             s1 == Emit([s EXCEPT !.rx = Tail(@)], << <<"read", command>> >>)
         IN  IF command = CharD THEN Deactivate(s1)
             ELSE IF command = CharA THEN Activate(s1)
             ELSE s1
    ELSE s

\* a measurement that takes a missing echo for an object out of range
MeasureNoEchoIsFar(s, pulse) ==
    Emit([s EXCEPT !.duration = pulse,
                   !.distance = IF pulse = 0 THEN 32767 ELSE DistanceOf[pulse]],
         << <<"trig", 0>>, <<"delayMicroseconds", 2>>,
            <<"trig", 1>>, <<"delayMicroseconds", 10>>,
            <<"trig", 0>>, <<"pulseIn", pulse>> >>)

\* trigger pulse, duration = pulseIn(echoPin, HIGH), distance = duration * 0.034 / 2
Measure(s, pulse) ==
    Emit([s EXCEPT !.duration = pulse, !.distance = DistanceOf[pulse]],
         << <<"trig", 0>>, <<"delayMicroseconds", 2>>,
            <<"trig", 1>>, <<"delayMicroseconds", 10>>,
            <<"trig", 0>>, <<"pulseIn", pulse>> >>)

\* the chain with < written for <=
BandStrict(d) ==
    IF d < NEAR_DISTANCE THEN "near"
    ELSE IF d < MID_DISTANCE THEN "mid"
    ELSE IF d < FAR_DISTANCE THEN "far"
    ELSE "beyond"

\* the branch of the if / else if chain that a distance selects
Band(d) ==
    IF d <= NEAR_DISTANCE THEN "near"
    ELSE IF d <= MID_DISTANCE THEN "mid"
    ELSE IF d <= FAR_DISTANCE THEN "far"
    ELSE "beyond"

\* a near branch that writes the servo only when its position changes
AlertNearOnChange(s) ==
    IF s.servo = SERVO_LOCKED_POS
    THEN Emit([s EXCEPT !.buzzerFreq = NEAR_FREQ],
              << <<"tone", NEAR_FREQ>>, <<"println", 79>> >>)
    ELSE Emit([s EXCEPT !.buzzerFreq = NEAR_FREQ, !.servo = SERVO_LOCKED_POS],
              << <<"tone", NEAR_FREQ>>, <<"servo", SERVO_LOCKED_POS>>, <<"println", 79>> >>)

\* distance <= NEAR_DISTANCE
AlertNear(s) ==
    Emit([s EXCEPT !.buzzerFreq = NEAR_FREQ, !.servo = SERVO_LOCKED_POS],
         << <<"tone", NEAR_FREQ>>, <<"servo", SERVO_LOCKED_POS>>, <<"println", 79>> >>)

\* distance <= MID_DISTANCE
AlertMid(s) ==
    Emit([s EXCEPT !.buzzerFreq = MID_FREQ, !.servo = SERVO_HALFLOCKED_POS],
         << <<"tone", MID_FREQ>>, <<"servo", SERVO_HALFLOCKED_POS>>, <<"println", 84>> >>)

\* a far branch that repeats the tone of the mid branch
AlertFarAsMid(s) ==
    Emit([s EXCEPT !.buzzerFreq = MID_FREQ, !.servo = SERVO_UNLOCKED_POS],
         << <<"tone", MID_FREQ>>, <<"servo", SERVO_UNLOCKED_POS>>, <<"println", 89>> >>)

\* distance <= FAR_DISTANCE
AlertFar(s) ==
    Emit([s EXCEPT !.buzzerFreq = FAR_FREQ, !.servo = SERVO_UNLOCKED_POS],
         << <<"tone", FAR_FREQ>>, <<"servo", SERVO_UNLOCKED_POS>>, <<"println", 89>> >>)

\* a beyond branch that stands the system down when nothing is in range
AlertBeyondStandsDown(s) ==
    Emit([s EXCEPT !.buzzerFreq = Silent, !.servo = SERVO_IDLE_AWAY_POS,
                   !.systemActive = FALSE],
         << <<"noTone", buzzer>>, <<"servo", SERVO_IDLE_AWAY_POS>> >>)

\* else
AlertBeyond(s) ==
    Emit([s EXCEPT !.buzzerFreq = Silent, !.servo = SERVO_IDLE_AWAY_POS],
         << <<"noTone", buzzer>>, <<"servo", SERVO_IDLE_AWAY_POS>> >>)

\* the if / else if chain
Alert(s) ==
    LET b == Band(s.distance)
    IN  IF b = "near" THEN AlertNear(s)
        ELSE IF b = "mid" THEN AlertMid(s)
        ELSE IF b = "far" THEN AlertFar(s)
        ELSE AlertBeyond(s)

\* distance processing without the systemActive test
ProcessDistanceAlways(s, pulse) == Alert(Measure(s, pulse))

\* if (systemActive) { measure; alert }
ProcessDistance(s, pulse) ==
    IF s.systemActive THEN Alert(Measure(s, pulse)) ELSE s

\* a loop() that returns early, before the delay, when the system is inactive
loopEarlyReturn(s, pulse) ==
    LET c == ReadCommand(s)
    IN  IF c.systemActive
        THEN Emit(Alert(Measure(c, pulse)), << <<"delay", LOOP_DELAY_MS>> >>)
        ELSE c

\* a loop() that polls the serial line only while the system is active
loopPollsWhenActive(s, pulse) ==
    Emit(IF s.systemActive THEN ProcessDistance(ReadCommand(s), pulse) ELSE s,
         << <<"delay", LOOP_DELAY_MS>> >>)

\* a loop() that tests systemActive as it was before the command was read
loopStaleGate(s, pulse) ==
    LET c == ReadCommand(s)
    IN  Emit(IF s.systemActive THEN Alert(Measure(c, pulse)) ELSE c,
             << <<"delay", LOOP_DELAY_MS>> >>)

\* one execution of loop() from program state s, the sensor answering pulse
loop(s, pulse) ==
    Emit(ProcessDistance(ReadCommand(s), pulse), << <<"delay", LOOP_DELAY_MS>> >>)

(***************************************************************************)
(* setup(), lines 29-40.                                                   *)
(***************************************************************************)
\* a setup() that starts with the door locked
setupLocked(s) ==
    Emit([s EXCEPT !.servo = SERVO_LOCKED_POS],
         << <<"attach", servoPin>>, <<"servo", SERVO_LOCKED_POS>>,
            <<"begin", 9600>>, <<"println", 38>>, <<"println", 39>> >>)

setup(s) ==
    Emit([s EXCEPT !.servo = SERVO_UNLOCKED_POS],
         << <<"attach", servoPin>>, <<"servo", SERVO_UNLOCKED_POS>>,
            <<"begin", 9600>>, <<"println", 38>>, <<"println", 39>> >>)

(***************************************************************************)
(* The state machine.                                                      *)
(***************************************************************************)
\* static initialisation of the globals, lines 24-27
Init ==
    /\ pc = "boot"
    /\ systemActive = TRUE
    /\ duration = 0
    /\ distance = 0
    /\ servo = None
    /\ buzzerFreq = Silent
    /\ rx = <<>>
    /\ log = <<>>
    /\ lastCmd = None

\* the byte a function read from the serial buffer, None if it read nothing
ByteRead(l) == IF Len(l) > 0 /\ l[1][1] = "read" THEN l[1][2] ELSE None

Install(s) ==
    /\ systemActive' = s.systemActive
    /\ duration' = s.duration
    /\ distance' = s.distance
    /\ servo' = s.servo
    /\ buzzerFreq' = s.buzzerFreq
    /\ rx' = s.rx
    /\ log' = s.log
    /\ lastCmd' = (IF ByteRead(s.log) \in {CharD, CharA} THEN ByteRead(s.log) ELSE lastCmd)

Setup ==
    /\ pc = "boot"
    /\ pc' = "ready"
    /\ Install(setup(State))

Loop ==
    /\ pc \in {"ready", "running"}
    /\ pc' = "running"
    /\ \E pulse \in Durations : Install(loop(State, pulse))

\* a byte arrives on the serial line (after Serial.begin) and is buffered
Receive ==
    /\ pc \in {"ready", "running"}
    /\ Len(rx) < MaxPending
    /\ \E b \in Bytes : rx' = Append(rx, b)
    /\ UNCHANGED <<pc, systemActive, duration, distance, servo, buzzerFreq, log, lastCmd>>

\* power loss or reset: the globals are initialised again and setup() reruns
PowerCycle ==
    /\ pc = "running"
    /\ pc' = "boot"
    /\ systemActive' = TRUE
    /\ duration' = 0
    /\ distance' = 0
    /\ servo' = None
    /\ buzzerFreq' = Silent
    /\ rx' = <<>>
    /\ log' = <<>>
    /\ lastCmd' = None

Next == Setup \/ Loop \/ Receive \/ PowerCycle

Spec == Init /\ [][Next]_vars

(***************************************************************************)
(* The same program with a silent serial line and the sensor sweeping the  *)
(* distance centimetre by centimetre.                                      *)
(***************************************************************************)
SweepLoop ==
    /\ pc \in {"ready", "running"}
    /\ pc' = "running"
    /\ \E pulse \in SweepDurations : Install(loop(State, pulse))

SweepNext == Setup \/ SweepLoop

SweepSpec == Init /\ [][SweepNext]_vars

(***************************************************************************)
(* The program between two power cycles.  The Arduino core calls setup()   *)
(* once and then loop() forever, and pulseIn and delay return, so a call   *)
(* of setup() or loop() that is due is eventually made.                    *)
(***************************************************************************)
LiveNext == Setup \/ Loop \/ Receive

LiveSpec == Init /\ [][LiveNext]_vars /\ WF_vars(Setup) /\ WF_vars(Loop)

TypeOK ==
    /\ pc \in {"boot", "ready", "running"}
    /\ systemActive \in BOOLEAN
    /\ duration \in SweepDurations
    /\ distance \in Nat
    /\ servo \in {None, SERVO_LOCKED_POS, SERVO_HALFLOCKED_POS, SERVO_UNLOCKED_POS}
    /\ buzzerFreq \in {Silent, NEAR_FREQ, MID_FREQ, FAR_FREQ}
    /\ rx \in Seq(Bytes) /\ Len(rx) <= MaxPending
    /\ lastCmd \in {None, CharD, CharA}

(***************************************************************************)
(* Vocabulary of the properties.                                           *)
(***************************************************************************)
\* the servo and buzzer calls of a log, in order
Actuators(l) == SelectSeq(l, LAMBDA e : e[1] \in {"servo", "tone", "noTone"})

\* the byte a tick read from the serial buffer, None if it read nothing
Consumed(l) == IF Len(l) > 0 /\ l[1][1] = "read" THEN l[1][2] ELSE None

\* the tick called pulseIn
Sampled(l) == \E i \in 1..Len(l) : l[i][1] = "pulseIn"

\* the branch of the chain a tick executed, told by its diagnostic line
BranchTaken(l) ==
    IF \E i \in 1..Len(l) : l[i] = <<"println", 79>> THEN "near"
    ELSE IF \E i \in 1..Len(l) : l[i] = <<"println", 84>> THEN "mid"
    ELSE IF \E i \in 1..Len(l) : l[i] = <<"println", 89>> THEN "far"
    ELSE "beyond"

\* the four ranges [0,30], (30,60], (60,100], (100,inf) of the specification
Ranges == {"near", "mid", "far", "beyond"}
InRange(d, r) ==
    IF r = "near" THEN 0 <= d /\ d <= 30
    ELSE IF r = "mid" THEN 30 < d /\ d <= 60
    ELSE IF r = "far" THEN 60 < d /\ d <= 100
    ELSE 100 < d
RangeOf(d) == CHOOSE r \in Ranges : InRange(d, r)

\* the {frequency, angle} pair the specification gives each band
PairOf(r) ==
    IF r = "near" THEN <<1000, 0>>
    ELSE IF r = "mid" THEN <<500, 90>>
    ELSE IF r = "far" THEN <<200, 180>>
    ELSE <<Silent, 180>>

\* the actuator calls that command a pair
CallsOf(pair) ==
    IF pair[1] = Silent
    THEN << <<"noTone", buzzer>>, <<"servo", pair[2]>> >>
    ELSE << <<"tone", pair[1]>>, <<"servo", pair[2]>> >>

\* the actuator calls of the deactivate transition
DeactivateCalls == << <<"servo", 180>>, <<"noTone", buzzer>> >>

\* inactive, unlocked and silent
Overridden == ~systemActive /\ servo = 180 /\ buzzerFreq = Silent

(***************************************************************************)
(* C1.  A tick that consumes 'D' ends inactive with the servo at 180 and   *)
(* the buzzer silent, and issues no distance-based call: it does not       *)
(* sample, and its only actuator calls are those of the deactivate         *)
(* transition.  From then on every tick that does not consume 'A' leaves   *)
(* the system inactive, at 180 and silent, whatever the sensor reports.    *)
(***************************************************************************)
C1_DeactivateTick ==
    (pc = "running" /\ Consumed(log) = CharD) =>
        /\ Overridden
        /\ ~Sampled(log)
        /\ Actuators(log) = DeactivateCalls

C1_StaysOverridden ==
    (Loop /\ Overridden /\ Consumed(log') # CharA) => Overridden'

C1_DeactivateOverride == [][C1_StaysOverridden /\ C1_DeactivateTick']_vars

\* 'D' consumed after a measurement in the near band: the servo is at 180 all the same
C1_Witness ==
    /\ pc = "running"
    /\ Consumed(log) = CharD
    /\ duration = 1823
    /\ Overridden

(***************************************************************************)
(* C2.  The branch loop() takes is a total function of the distance: the   *)
(* distance lies in exactly one of [0,30], (30,60], (60,100], (100,inf)    *)
(* and the branch taken is the one of that range; 30, 60 and 100 belong    *)
(* to the nearer band.                                                     *)
(***************************************************************************)
C2_BandsPartition ==
    (pc = "running" /\ systemActive) =>
        /\ distance >= 0
        /\ Cardinality({r \in Ranges : InRange(distance, r)}) = 1
        /\ \A r \in Ranges : InRange(distance, r) <=> BranchTaken(log) = r
        /\ distance \in {30, 60, 100} => ~InRange(distance + 1, BranchTaken(log))
        /\ distance \in {31, 61, 101} => ~InRange(distance - 1, BranchTaken(log))

C2_Witness ==
    /\ pc = "running"
    /\ distance = 100
    /\ BranchTaken(log) = "far"

(***************************************************************************)
(* C3.  An active tick commands the pair of its band: near (1000, 0), mid  *)
(* (500, 90), far (200, 180), beyond (silent, 180).  The pairs are         *)
(* distinct, and of two consecutive ticks the one with the larger distance *)
(* has the lower or equal frequency and the larger or equal angle, the     *)
(* frequency being strictly lower when the bands differ.                   *)
(***************************************************************************)
C3_PairOfBand ==
    (pc = "running" /\ systemActive) =>
        /\ <<buzzerFreq, servo>> = PairOf(RangeOf(distance))
        /\ Actuators(log) = CallsOf(PairOf(RangeOf(distance)))
        /\ \A r \in Ranges : PairOf(r) = <<buzzerFreq, servo>> => r = RangeOf(distance)

C3_CloserIsMoreUrgent ==
    (pc = "running" /\ systemActive /\ systemActive' /\ distance < distance') =>
        /\ buzzerFreq >= buzzerFreq'
        /\ servo <= servo'
        /\ RangeOf(distance) # RangeOf(distance') => buzzerFreq > buzzerFreq'

C3_BandMapping == [][C3_PairOfBand' /\ C3_CloserIsMoreUrgent]_vars

C3_Witness ==
    /\ pc = "running"
    /\ systemActive
    /\ distance = 45
    /\ <<buzzerFreq, servo>> = <<500, 90>>

(***************************************************************************)
(* C4.  As claimed: a tick that starts and ends inactive does not sample   *)
(* the distance and issues no servo or buzzer call.                        *)
(***************************************************************************)
C4_NoCallWhenInactive ==
    (Loop /\ ~systemActive /\ ~systemActive') =>
        (~Sampled(log') /\ Actuators(log') = <<>>)

C4_Original == [][C4_NoCallWhenInactive]_vars

(***************************************************************************)
(* C4 as amended.  A tick that ends inactive does not sample the distance  *)
(* (duration and distance keep their values) and issues no distance-based  *)
(* call: if it consumed 'D' its actuator calls are exactly the servo write *)
(* to 180 and the noTone of the deactivate transition, otherwise it issues *)
(* no servo or buzzer call and leaves both as they were.                   *)
(***************************************************************************)
C4_InactiveTick ==
    (Loop /\ ~systemActive') =>
        /\ ~Sampled(log')
        /\ duration' = duration /\ distance' = distance
        /\ Actuators(log') =
              (IF Consumed(log') = CharD THEN DeactivateCalls ELSE <<>>)
        /\ Consumed(log') # CharD => (servo' = servo /\ buzzerFreq' = buzzerFreq)

C4_Amended == [][C4_InactiveTick]_vars

\* an inactive tick with nothing to read: its only call is the delay
C4_Witness ==
    /\ pc = "running"
    /\ ~systemActive
    /\ log = << <<"delay", 100>> >>

(***************************************************************************)
(* C5.  A tick reads exactly the head of the serial buffer if there is     *)
(* one and nothing otherwise; the read is the first call of the tick, so   *)
(* it precedes every measurement and actuator call; the bytes behind the   *)
(* head stay in the buffer, in order, and only the head takes effect.      *)
(***************************************************************************)
Reads(l) == SelectSeq(l, LAMBDA e : e[1] = "read")

C5_Step ==
    Loop =>
        IF rx = <<>>
        THEN rx' = <<>> /\ Reads(log') = <<>> /\ systemActive' = systemActive
        ELSE /\ rx' = Tail(rx)
             /\ Reads(log') = << <<"read", Head(rx)>> >>
             /\ log'[1] = <<"read", Head(rx)>>
             /\ systemActive' = (IF Head(rx) = CharD THEN FALSE
                                 ELSE IF Head(rx) = CharA THEN TRUE
                                 ELSE systemActive)

C5_OneBytePerTick == [][C5_Step]_vars

\* 'D' was consumed, the 'A' behind it is still pending and has had no effect
C5_Witness ==
    /\ pc = "running"
    /\ Consumed(log) = CharD
    /\ rx = <<CharA>>
    /\ ~systemActive

(***************************************************************************)
(* C6.  A tick that consumes 'A' is active after command processing, the   *)
(* command issues no servo or buzzer call of its own, and the same tick    *)
(* samples the distance and commands the pair of its band.                 *)
(***************************************************************************)
IndexOf(l, kind) == CHOOSE i \in 1..Len(l) : l[i][1] = kind

C6_ActivateTick ==
    (pc = "running" /\ Consumed(log) = CharA) =>
        /\ systemActive
        /\ Sampled(log)
        /\ \A i \in 1..Len(log) :
              log[i][1] \in {"servo", "tone", "noTone"} => i > IndexOf(log, "pulseIn")
        /\ distance = ToDistance(duration)
        /\ Actuators(log) = CallsOf(PairOf(RangeOf(distance)))
        /\ <<buzzerFreq, servo>> = PairOf(RangeOf(distance))

C6_FromInactive ==
    (Loop /\ ~systemActive /\ rx # <<>> /\ Head(rx) = CharA) =>
        (systemActive' /\ Sampled(log'))

C6_ActivatePriority == []C6_ActivateTick /\ [][C6_FromInactive]_vars

C6_Witness ==
    /\ pc = "running"
    /\ Consumed(log) = CharA
    /\ distance = 60
    /\ <<buzzerFreq, servo>> = <<500, 90>>

(***************************************************************************)
(* C7.  Two consecutive ticks that consume no byte and read the same       *)
(* distance issue the same actuator calls and leave systemActive, the      *)
(* servo angle and the tone unchanged; the actuator calls of a tick that   *)
(* consumes no byte are a function of systemActive and its distance.       *)
(***************************************************************************)
C7_SameOutput ==
    (/\ Loop
     /\ pc = "running"
     /\ Consumed(log) = None
     /\ Consumed(log') = None
     /\ systemActive => distance' = distance) =>
        /\ Actuators(log') = Actuators(log)
        /\ systemActive' = systemActive
        /\ servo' = servo
        /\ buzzerFreq' = buzzerFreq

C7_OutputOfTick ==
    (pc = "running" /\ Consumed(log) = None) =>
        Actuators(log) =
            (IF systemActive THEN CallsOf(PairOf(RangeOf(distance))) ELSE <<>>)

C7_Idempotent == [][C7_SameOutput /\ C7_OutputOfTick']_vars

\* an active tick that read nothing and measured 0 cm from a 1 us echo
C7_Witness ==
    /\ pc = "running"
    /\ systemActive
    /\ Consumed(log) = None
    /\ duration = 1
    /\ distance = 0
    /\ Actuators(log) = << <<"tone", 1000>>, <<"servo", 0>> >>

(***************************************************************************)
(* C8.  A tick that consumes a byte other than 'D' and 'A' leaves          *)
(* systemActive unchanged and does exactly what the same tick does with    *)
(* an empty buffer, except that it reads the byte and removes it.          *)
(***************************************************************************)
C8_Step ==
    (Loop /\ rx # <<>> /\ Head(rx) \notin {CharD, CharA}) =>
        LET ref == loop([State EXCEPT !.rx = <<>>], duration')
        IN  /\ systemActive' = systemActive
            /\ rx' = Tail(rx)
            /\ log' = << <<"read", Head(rx)>> >> \o ref.log
            /\ Actuators(log') = Actuators(ref.log)
            /\ servo' = ref.servo
            /\ buzzerFreq' = ref.buzzerFreq
            /\ distance' = ref.distance

C8_UnrecognizedIgnored == [][C8_Step]_vars

\* a lower-case 'd' was consumed and the system still alerts
C8_Witness ==
    /\ pc = "running"
    /\ Consumed(log) = Char_d
    /\ systemActive
    /\ <<buzzerFreq, servo>> = <<1000, 0>>

(***************************************************************************)
(* C9.  An active tick whose pulseIn returns 0 computes distance 0, takes  *)
(* the near branch and commands the 1000 Hz tone and the locked angle 0,   *)
(* the same calls as for any distance up to 30; systemActive stays set.    *)
(***************************************************************************)
C9_NoEchoIsNear ==
    (pc = "running" /\ \E i \in 1..Len(log) : log[i] = <<"pulseIn", 0>>) =>
        /\ systemActive
        /\ duration = 0 /\ distance = 0
        /\ BranchTaken(log) = "near"
        /\ Actuators(log) = << <<"tone", 1000>>, <<"servo", 0>> >>
        /\ <<buzzerFreq, servo>> = <<1000, 0>>

C9_NearIsNear ==
    (pc = "running" /\ Sampled(log) /\ distance <= 30) =>
        Actuators(log) = << <<"tone", 1000>>, <<"servo", 0>> >>

C9_MissingEcho == [](C9_NoEchoIsNear /\ C9_NearIsNear)

C9_Witness ==
    /\ pc = "running"
    /\ log[Len(log) - 4] = <<"pulseIn", 0>>
    /\ servo = 0
    /\ buzzerFreq = 1000

(***************************************************************************)
(* C10.  After setup() and before the first tick the system is active,     *)
(* the servo has been written 180 and no tone has been requested, whatever *)
(* is waiting on the serial line, after the first boot and after every     *)
(* power cycle.                                                            *)
(***************************************************************************)
C10_InitialState ==
    pc = "ready" =>
        /\ systemActive
        /\ servo = 180
        /\ buzzerFreq = Silent
        /\ Actuators(log) = << <<"servo", 180>> >>
        /\ ~Sampled(log)
        /\ duration = 0 /\ distance = 0

\* set up, with a deactivate command already waiting
C10_Witness ==
    /\ pc = "ready"
    /\ rx = <<CharD>>
    /\ servo = 180

(***************************************************************************)
(* C11.  systemActive changes only in a tick that consumes 'D' or 'A': a   *)
(* tick that consumes nothing or another byte leaves it as it was for      *)
(* every distance, in particular when the distance moves to another band,  *)
(* and no step other than a tick (or a power cycle) changes it.            *)
(***************************************************************************)
C11_TickKeepsState ==
    (Loop /\ (rx = <<>> \/ Head(rx) \notin {CharD, CharA})) =>
        systemActive' = systemActive

C11_OnlyCommandsChange ==
    (systemActive' # systemActive) =>
        \/ pc' = "boot"
        \/ Loop /\ rx # <<>> /\ Head(rx) \in {CharD, CharA}

C11_ActivationFrame == [][C11_TickKeepsState /\ C11_OnlyCommandsChange]_vars

\* no command since boot, the measurement is beyond every threshold, still active
C11_Witness ==
    /\ pc = "running"
    /\ lastCmd = None
    /\ Consumed(log) = CharU
    /\ distance > 100
    /\ systemActive

(***************************************************************************)
(* C12.  As claimed: every tick calls pulseIn exactly once and delay       *)
(* exactly once.                                                           *)
(***************************************************************************)
Count(l, kind) == Len(SelectSeq(l, LAMBDA e : e[1] = kind))

C12_Original ==
    pc = "running" => (Count(log, "pulseIn") = 1 /\ Count(log, "delay") = 1)

(***************************************************************************)
(* C12 as amended.  Every tick calls delay(100) exactly once, as its last  *)
(* call.  A tick that is active after command processing calls pulseIn     *)
(* exactly once, after the 2 us and 10 us waits of the trigger pulse; a    *)
(* tick that is inactive calls neither.  A tick makes no other waiting     *)
(* call.                                                                   *)
(***************************************************************************)
Waits(l) ==
    SelectSeq(l, LAMBDA e : e[1] \in {"pulseIn", "delay", "delayMicroseconds"})

C12_SuspensionPoints ==
    pc = "running" =>
        /\ Count(log, "delay") = 1
        /\ log[Len(log)] = <<"delay", 100>>
        /\ Count(log, "pulseIn") = (IF systemActive THEN 1 ELSE 0)
        /\ Waits(log) =
              (IF systemActive
               THEN << <<"delayMicroseconds", 2>>, <<"delayMicroseconds", 10>>,
                       <<"pulseIn", duration>>, <<"delay", 100>> >>
               ELSE << <<"delay", 100>> >>)

\* an inactive tick that read an unrecognized byte: one delay, no pulseIn
C12_Witness ==
    /\ pc = "running"
    /\ ~systemActive
    /\ Consumed(log) = CharU
    /\ Count(log, "pulseIn") = 0
    /\ Count(log, "delay") = 1

(***************************************************************************)
(* C13.  Once setup() has run, the angle last written to the servo is 0,   *)
(* 90 or 180 and a requested tone is 1000, 500 or 200 Hz, and so is every  *)
(* servo and tone call of a tick; a tick that writes 0 or 90 or requests a *)
(* tone is active after command processing.                                *)
(***************************************************************************)
C13_Outputs ==
    /\ pc # "boot" => servo \in {0, 90, 180}
    /\ buzzerFreq \in {Silent, 1000, 500, 200}
    /\ \A i \in 1..Len(log) :
          /\ log[i][1] = "servo" => log[i][2] \in {0, 90, 180}
          /\ log[i][1] = "tone" => log[i][2] \in {1000, 500, 200}
    /\ (/\ pc = "running"
        /\ \E i \in 1..Len(log) :
              \/ log[i][1] = "tone"
              \/ log[i] = <<"servo", 0>>
              \/ log[i] = <<"servo", 90>>) => systemActive

\* a tick activated by 'A' that commands the half-locked angle and a tone
C13_Witness ==
    /\ pc = "running"
    /\ Consumed(log) = CharA
    /\ servo = 90
    /\ buzzerFreq = 500
    /\ systemActive

(***************************************************************************)
(* C14.  The control loop has no terminal state: setup() can run at boot   *)
(* and from then on loop() can always run.  When the calls of loop() that  *)
(* are due are made, every byte in the serial buffer is eventually read,   *)
(* and the tick that reads a pending 'D' leaves the system inactive, the   *)
(* tick that reads a pending 'A' leaves it active.                         *)
(***************************************************************************)
Pending(b) == \E i \in 1..Len(rx) : rx[i] = b

C14_NoTerminalState ==
    /\ pc = "boot" => ENABLED Setup
    /\ pc # "boot" => ENABLED Loop

\* the activation state a byte leaves behind when it is read
TakesEffect(b) ==
    IF b = CharD THEN ~systemActive
    ELSE IF b = CharA THEN systemActive
    ELSE TRUE

C14_Live ==
    /\ []C14_NoTerminalState
    /\ \A b \in Bytes :
          Pending(b) ~> (pc = "running" /\ Consumed(log) = b /\ TakesEffect(b))

\* 'A' has taken effect on an inactive system while a 'D' is still pending
C14_Witness ==
    /\ pc = "running"
    /\ lastCmd = CharA
    /\ Consumed(log) = CharA
    /\ rx = <<CharD>>
    /\ systemActive

(***************************************************************************)
(* C15.  As claimed: the distance of an active tick is a non-negative      *)
(* integer equal to floor(duration * 17 / 1000), computed from the         *)
(* duration of that tick, and of two consecutive active ticks the one with *)
(* the longer echo has the larger or equal distance.                       *)
(***************************************************************************)
C15_Value ==
    (pc = "running" /\ systemActive) =>
        /\ distance >= 0
        /\ distance = (duration * 17) \div 1000

C15_Monotone ==
    (SweepLoop /\ pc = "running" /\ duration <= duration') => distance <= distance'

C15_Original == [][C15_Value' /\ C15_Monotone]_vars

\* what does hold: the distance is the binary32 result for the duration of the
\* tick, it is not negative, and it does not decrease when the echo gets longer
C15_Binary32 ==
    [][(SweepLoop => (distance' = ToDistance(duration') /\ distance' >= 0))
       /\ C15_Monotone]_vars

(***************************************************************************)
(* C16.  Last recognized command wins: the system is inactive exactly when *)
(* the last 'D' or 'A' read since boot is a 'D'; with none read it is      *)
(* active; a tick that reads the same command again leaves the activation  *)
(* state as it is.                                                         *)
(***************************************************************************)
C16_LastWins ==
    /\ ~systemActive <=> lastCmd = CharD
    /\ lastCmd = None => systemActive

C16_Repeat ==
    (Loop /\ rx # <<>> /\ Head(rx) = lastCmd) => systemActive' = systemActive

C16_LastCommandWins == []C16_LastWins /\ [][C16_Repeat]_vars

\* 'D' was the last command; an unrecognized byte read since has changed nothing
C16_Witness ==
    /\ pc = "running"
    /\ lastCmd = CharD
    /\ Consumed(log) = Char_a
    /\ rx = <<>>
    /\ ~systemActive

(***************************************************************************)
(* C17.  Whenever the system is inactive the angle last written to the     *)
(* servo is 180 and no tone is requested: the buzzer was silenced by       *)
(* noTone and no tone has been started since.                              *)
(***************************************************************************)
C17_InactiveIsUnlockedAndSilent ==
    ~systemActive =>
        /\ servo = 180
        /\ buzzerFreq = Silent
        /\ Count(log, "tone") = 0

\* inactive after a measurement in the mid band, which had commanded 90 and 500 Hz
C17_Witness ==
    /\ ~systemActive
    /\ duration = 3588
    /\ servo = 180
    /\ buzzerFreq = Silent

====
